---- MODULE Spec2Model ----
(***************************************************************************)
(* Model of the page download pipeline of src/main.rs:                     *)
(*   save_page_to_file       (the Page Fetcher, one tokio task per page)   *)
(*   download_teaching_tool  (the Batch Download Coordinator)              *)
(* The coordinator and every spawned task are separate processes.  A task  *)
(* touches nothing but its own record and its own file, which no other     *)
(* process reads, so its steps between await points are grouped: the       *)
(* File::create of a task is taken with the spawn that starts it, and one  *)
(* iteration of its retry loop (send, bytes, write_all, flush) is a step.  *)
(*                                                                         *)
(* Three specifications share the module, each over its own variables:     *)
(*   Spec         download_teaching_tool and its fetch tasks, one book     *)
(*   OutlineSpec  prepare_teaching_tool and add_bookmarks, one book        *)
(*   RunSpec      the loops of main, download_package and prepare_package  *)
(*                over several books                                       *)
(***************************************************************************)
EXTENDS Integers, Sequences, FiniteSets

\* ------------------------------------------------------------------ bounds
\* Longest page_urls list of a book.
MaxPages == 13
\* Pages 0..MaxFaultyPage are the ones whose I/O (file creation, transfer,
\* write) may fail; the I/O of the other pages succeeds.
MaxFaultyPage == 1
\* Most invocations of download_teaching_tool for the book.
MaxCalls == 2

\* Most nodes of an outline forest (book.bookmarks with all their lessons).
MaxNodes == 3
\* Bits of the u32 of `as u32`, scaled down from 32.
WordBits == 4
\* Most books (teaching tools) of one run of main.
MaxBooks == 3

\* ------------------------------------------------------- program constants
\* `if i % 10 == 0` of download_teaching_tool.
BatchSize == 10

VARIABLES
    page_urls,   \* book.page_urls: the ordered page locators (URL k is k)
    dirExists,   \* Path::new(&book_dir).is_dir()
    fs,          \* the files of book_dir: path -> content
    pc,          \* position of download_teaching_tool
    i,           \* index of the enumerate() loop
    h,           \* position of the `for handle in &mut handles` loop
    handles,     \* Vec<JoinHandle<()>>: indexes into tasks
    tasks,       \* every task tokio::spawn has created, in spawn order
    drains,      \* number of handles.clear() executed inside the loop
    result,      \* how the last invocation ended
    calls        \* number of invocations so far

\* prepare_teaching_tool / add_bookmarks
VARIABLES
    bookmarks,   \* book.bookmarks: the outline forest, node -> [startPage, parent]
    page_shift,  \* book.page_shift
    docPages,    \* number of pages of the PDF the assembler writes
    ppc,         \* position of prepare_teaching_tool
    stack,       \* the active add_bookmarks calls, innermost first
    entries,     \* doc.bookmark_table: the lopdf bookmarks added, id = index
    presult,     \* what prepare_teaching_tool returned
    pdfFile      \* the <id>.pdf on disk

\* main / download_package / prepare_package
VARIABLES
    rmode,       \* exploration mode or book URLs
    packages,    \* the teaching tools (book ids) of each package / the selected tools
    pk,          \* index of the package (URL) being processed
    tk,          \* index of the teaching tool inside it
    rpc,         \* position of main
    status       \* per book: the last stage it reached

dlVars == <<page_urls, dirExists, fs, pc, i, h, handles, tasks, drains, result, calls>>
prepVars == <<bookmarks, page_shift, docPages, ppc, stack, entries, presult, pdfFile>>
runVars == <<rmode, packages, pk, tk, rpc, status>>
vars == <<dlVars, prepVars, runVars>>

\* ------------------------------------------------------------ pure helpers
DigitChars == <<"0", "1", "2", "3", "4", "5", "6", "7", "8", "9">>

\* u64::to_string: the decimal digits, most significant first.
RECURSIVE to_string(_)
to_string(n) ==
    IF n < 10 THEN <<DigitChars[n + 1]>>
    ELSE to_string(n \div 10) \o <<DigitChars[(n % 10) + 1]>>

\* A path that keeps only the last digit of the page number.
PagePathLastDigit(dir, page_number) ==
    <<dir, "/">> \o to_string(page_number % 10) \o <<".png">>

\* book_dir + "/" + page_number.to_string() + ".png"
PagePath(dir, page_number) ==
    <<dir, "/">> \o to_string(page_number) \o <<".png">>

\* "./" + title + " ;;; " + id
book_dir == "./title ;;; id"

\* File contents: no file, what File::create leaves, a write_all that failed
\* part-way (some prefix of the payload), the whole payload of a URL.
NoFile == [bytes |-> "absent", of |-> 0]
EmptyFile == [bytes |-> "none", of |-> 0]
PartialFile(url) == [bytes |-> "partial", of |-> url]
FullFile(url) == [bytes |-> "all", of |-> url]

\* File::create / write_all on one path of the directory.
WriteFile(files, path, content) ==
    [p \in (DOMAIN files) \cup {path} |-> IF p = path THEN content ELSE files[p]]

FileAt(files, path) == IF path \in DOMAIN files THEN files[path] ELSE NoFile

\* A task is running from tokio::spawn until its future resolves.
Running(t) == t.st = "opened"
\* JoinHandle::await yields once the task has finished: Ok(()) ...
JoinOk(t) == t.st \in {"done", "create_failed"}
\* ... or Err(JoinError) when the task panicked.
JoinErr(t) == t.st = "panicked"

\* The I/O of this page may fail.
Faulty(page_number) == page_number <= MaxFaultyPage

\* A boundary taken one locator too late.
GroupBoundaryLate(n) == n % (BatchSize + 1) = 0

\* `if i % 10 == 0`: the handles are awaited after this spawn.
GroupBoundary(n) == n % BatchSize = 0

\* save_page_to_file up to the retry loop: the path and File::create.
OpenTask(dir, page_url, page_number, created, group) ==
    [page_number |-> page_number,
     page_url    |-> page_url,
     path        |-> PagePath(dir, page_number),
     st          |-> IF created THEN "opened" ELSE "create_failed",
     writes      |-> 0,
     last        |-> "none",
     group       |-> group]

\* ------------------------------------------------------------------- Init
\* The part of the state a specification does not use stays as it is here.
DownloadIdle ==
    /\ page_urls = << >>
    /\ dirExists = TRUE
    /\ fs = << >>
    /\ pc = "returned"
    /\ i = 0
    /\ h = 1
    /\ handles = << >>
    /\ tasks = << >>
    /\ drains = 0
    /\ result = "downloaded"
    /\ calls = 1

PrepIdle ==
    /\ bookmarks = << >>
    /\ page_shift = 0
    /\ docPages = 0
    /\ ppc = "idle"
    /\ stack = << >>
    /\ entries = << >>
    /\ presult = "none"
    /\ pdfFile = [state |-> "absent", outline |-> << >>]

RunIdle ==
    /\ rmode = "idle"
    /\ packages = << >>
    /\ pk = 1
    /\ tk = 1
    /\ rpc = "idle"
    /\ status = << >>

Init ==
    /\ PrepIdle
    /\ RunIdle
    /\ page_urls \in {[k \in 1..n |-> k] : n \in 0..MaxPages}
    /\ dirExists \in BOOLEAN
    /\ fs = << >>
    /\ pc = "start"
    /\ i = 0
    /\ h = 1
    /\ handles = << >>
    /\ tasks = << >>
    /\ drains = 0
    /\ result = "none"
    /\ calls = 1

\* ------------------------------------------------- download_teaching_tool
\* A coordinator that never skips.
CheckDirNoSkip ==
    /\ pc = "start"
    /\ dirExists' = TRUE
    /\ handles' = << >>
    /\ i' = 0
    /\ pc' = "loop"
    /\ UNCHANGED <<page_urls, fs, h, tasks, drains, result, calls>>
    /\ UNCHANGED <<prepVars, runVars>>

\* Lines 190-199: skip a book whose directory exists, else create it.
CheckDir ==
    /\ pc = "start"
    /\ IF dirExists
       THEN /\ pc' = "returned"
            /\ result' = "skipped"
            /\ UNCHANGED <<dirExists, handles, i>>
       ELSE /\ dirExists' = TRUE
            /\ handles' = << >>
            /\ i' = 0
            /\ pc' = "loop"
            /\ UNCHANGED result
    /\ UNCHANGED <<page_urls, fs, h, tasks, drains, calls>>
    /\ UNCHANGED <<prepVars, runVars>>

\* Lines 200-208: one iteration of the loop up to the `if`; the spawned task
\* runs to the result of its File::create.
Spawn ==
    /\ pc = "loop"
    /\ i < Len(page_urls)
    /\ \E created \in BOOLEAN :
          /\ created \/ Faulty(i)
          /\ tasks' = Append(tasks,
                             OpenTask(book_dir, page_urls[i + 1], i, created, drains))
          /\ fs' = IF created
                   THEN WriteFile(fs, PagePath(book_dir, i), EmptyFile)
                   ELSE fs
    /\ handles' = Append(handles, Len(tasks) + 1)
    /\ IF GroupBoundary(i)
       THEN pc' = "drain" /\ h' = 1 /\ i' = i
       ELSE pc' = "loop" /\ h' = h /\ i' = i + 1
    /\ UNCHANGED <<page_urls, dirExists, drains, result, calls>>
    /\ UNCHANGED <<prepVars, runVars>>

\* Line 200: the iterator is exhausted.
LoopExit ==
    /\ pc = "loop"
    /\ i = Len(page_urls)
    /\ pc' = "final"
    /\ h' = 1
    /\ UNCHANGED <<page_urls, dirExists, fs, i, handles, tasks, drains, result, calls>>
    /\ UNCHANGED <<prepVars, runVars>>

\* A drain that awaits only the handle pushed last.
AwaitLastOnly ==
    /\ pc \in {"drain", "final"}
    /\ h <= Len(handles)
    /\ JoinOk(tasks[handles[Len(handles)]])
    /\ h' = Len(handles) + 1
    /\ UNCHANGED <<page_urls, dirExists, fs, pc, i, handles, tasks, drains, result, calls>>
    /\ UNCHANGED <<prepVars, runVars>>

\* Lines 210 and 216: handle.await.unwrap() on a finished task.
AwaitHandle ==
    /\ pc \in {"drain", "final"}
    /\ h <= Len(handles)
    /\ JoinOk(tasks[handles[h]])
    /\ h' = h + 1
    /\ UNCHANGED <<page_urls, dirExists, fs, pc, i, handles, tasks, drains, result, calls>>
    /\ UNCHANGED <<prepVars, runVars>>

\* Lines 210 and 216: handle.await.unwrap() on a task that panicked.
AwaitPanic ==
    /\ pc \in {"drain", "final"}
    /\ h <= Len(handles)
    /\ JoinErr(tasks[handles[h]])
    /\ pc' = "panicked"
    /\ result' = "panicked"
    /\ UNCHANGED <<page_urls, dirExists, fs, i, h, handles, tasks, drains, calls>>
    /\ UNCHANGED <<prepVars, runVars>>

\* Line 212: handles.clear(), then the next iteration.
ClearHandles ==
    /\ pc = "drain"
    /\ h > Len(handles)
    /\ handles' = << >>
    /\ drains' = drains + 1
    /\ i' = i + 1
    /\ pc' = "loop"
    /\ UNCHANGED <<page_urls, dirExists, fs, h, tasks, result, calls>>
    /\ UNCHANGED <<prepVars, runVars>>

\* A return that does not await the handles left after the loop.
ReturnWithoutDrain ==
    /\ pc = "final"
    /\ handles' = << >>
    /\ pc' = "returned"
    /\ result' = "downloaded"
    /\ UNCHANGED <<page_urls, dirExists, fs, i, h, tasks, drains, calls>>
    /\ UNCHANGED <<prepVars, runVars>>

\* Lines 218-220: handles.clear(), "SUCCESSFULLY DOWNLOADED BOOK", Ok(()).
Return ==
    /\ pc = "final"
    /\ h > Len(handles)
    /\ handles' = << >>
    /\ pc' = "returned"
    /\ result' = "downloaded"
    /\ UNCHANGED <<page_urls, dirExists, fs, i, h, tasks, drains, calls>>
    /\ UNCHANGED <<prepVars, runVars>>

\* The caller invokes download_teaching_tool for the same book again.
Call ==
    /\ pc = "returned"
    /\ calls < MaxCalls
    /\ calls' = calls + 1
    /\ pc' = "start"
    /\ result' = "none"
    /\ UNCHANGED <<page_urls, dirExists, fs, i, h, handles, tasks, drains>>
    /\ UNCHANGED <<prepVars, runVars>>

\* ------------------------------------------------------ save_page_to_file
\* A retry loop without the `break` after the write.
AttemptNoBreak(k) ==
    /\ tasks[k].st = "opened"
    /\ tasks[k].writes < 2
    /\ tasks' = [tasks EXCEPT ![k].last = "ok", ![k].writes = @ + 1]
    /\ fs' = WriteFile(fs, tasks[k].path, FullFile(tasks[k].page_url))
    /\ UNCHANGED <<page_urls, dirExists, pc, i, h, handles, drains, result, calls>>
    /\ UNCHANGED <<prepVars, runVars>>

\* Lines 102-110: one iteration of the retry loop of task k.
Attempt(k) ==
    /\ tasks[k].st = "opened"
    /\ \/ \* send() failed: the loop goes round again
          /\ Faulty(tasks[k].page_number)
          /\ tasks' = [tasks EXCEPT ![k].last = "send_err"]
          /\ UNCHANGED fs
       \/ \* r.bytes().await.unwrap() on a body that failed
          /\ Faulty(tasks[k].page_number)
          /\ tasks' = [tasks EXCEPT ![k].last = "body_err", ![k].st = "panicked"]
          /\ UNCHANGED fs
       \/ \* write_all(..).await.unwrap() / flush().await.unwrap() on an I/O error
          /\ Faulty(tasks[k].page_number)
          /\ tasks' = [tasks EXCEPT ![k].last = "write_err", ![k].st = "panicked"]
          /\ fs' = WriteFile(fs, tasks[k].path, PartialFile(tasks[k].page_url))
       \/ \* the whole payload is written and flushed; break
          /\ tasks' = [tasks EXCEPT ![k].last = "ok", ![k].writes = @ + 1,
                                    ![k].st = "done"]
          /\ fs' = WriteFile(fs, tasks[k].path, FullFile(tasks[k].page_url))
    /\ UNCHANGED <<page_urls, dirExists, pc, i, h, handles, drains, result, calls>>
    /\ UNCHANGED <<prepVars, runVars>>

save_page_to_file == \E k \in DOMAIN tasks : Attempt(k)

Next ==
    \/ CheckDir
    \/ Spawn
    \/ LoopExit
    \/ AwaitHandle
    \/ AwaitPanic
    \/ ClearHandles
    \/ Return
    \/ Call
    \/ save_page_to_file

Spec == Init /\ [][Next]_vars

\* ======================================================= the outline builder
\* `as u32` wraps modulo 2^32 (here 2^WordBits).
U32Modulus == 2 ^ WordBits

\* The startPage values of the nodes, the pageShift values and the page
\* counts of the assembled PDF that are tried.
StartPages == {0, 5, 10}
PageShifts == {-3, 0, 2, 3, U32Modulus}
DocPageCounts == {0, 6, 7, 8}

\* Every forest of at most MaxNodes nodes: node k hangs under node parent
\* (0: book.bookmarks itself); the lessons of a node are in index order.
Forests ==
    UNION {{f \in [1..n -> [startPage : StartPages, parent : 0..(MaxNodes - 1)]] :
               \A k \in 1..n : f[k].parent < k} : n \in 0..MaxNodes}

\* eduka_bookmark.lessons (book.bookmarks for p = 0), as node indexes from k on.
RECURSIVE Lessons(_, _, _)
Lessons(nodes, p, k) ==
    IF k > Len(nodes) THEN << >>
    ELSE (IF nodes[k].parent = p THEN <<k>> ELSE << >>)
            \o Lessons(nodes, p, k + 1)

\* Lines 270-278: the page the node is looked up by, before the shift.
StartPageOf(nodes, n) ==
    IF nodes[n].startPage = 0
    THEN LET lessons == Lessons(nodes, n, 1)
         IN  IF lessons # << >> THEN nodes[lessons[1]].startPage ELSE 0
    ELSE nodes[n].startPage

\* Lines 269-280: (... as i64 - page_shift) as u32.
PageNum(nodes, shift, n) == (StartPageOf(nodes, n) - shift) % U32Modulus

\* A lookup by zero-based page index.
HasPageZeroBased(pages, page_num) == page_num \in 0..(pages - 1)

\* A lookup that finds every page number.
HasPageAlways(pages, page_num) == TRUE

\* Lines 281-284: doc.get_pages().get(&page_num); lopdf numbers the pages from 1.
HasPage(pages, page_num) == page_num \in 1..pages

NoPdf == [state |-> "absent", outline |-> << >>]

OutlineInit ==
    /\ DownloadIdle
    /\ RunIdle
    /\ bookmarks \in Forests
    /\ page_shift \in PageShifts
    /\ docPages \in DocPageCounts
    /\ ppc = "assemble"
    /\ stack = << >>
    /\ entries = << >>
    /\ presult = "none"
    /\ pdfFile = NoPdf

\* The file at pdf_path after the assembler ran: a failed pipeline may
\* still leave a file there.
Assembled(success, leftover) ==
    IF success THEN [state |-> "assembled", outline |-> << >>]
    ELSE IF leftover THEN [state |-> "leftover", outline |-> << >>]
    ELSE NoPdf

\* An assembler whose exit status is not looked at.
AssembleUnchecked ==
    /\ ppc = "assemble"
    /\ \E success, leftover \in BOOLEAN :
          pdfFile' = Assembled(success, leftover)
    /\ ppc' = "load"
    /\ UNCHANGED <<bookmarks, page_shift, docPages, stack, entries, presult>>
    /\ UNCHANGED <<dlVars, runVars>>

\* Lines 246-256: assert!(img2pdf | ocrmypdf ... .status().success()).
Assemble ==
    /\ ppc = "assemble"
    /\ \E success, leftover \in BOOLEAN :
          /\ pdfFile' = Assembled(success, leftover)
          /\ ppc' = IF success THEN "load" ELSE "panicked"
    /\ UNCHANGED <<bookmarks, page_shift, docPages, stack, entries, presult>>
    /\ UNCHANGED <<dlVars, runVars>>

\* Line 260: lopdf::Document::load(&pdf_path)?, then the call of line 295.
Load ==
    /\ ppc = "load"
    /\ \/ /\ pdfFile.state \in {"assembled", "leftover"}
          /\ ppc' = "build"
          /\ stack' = <<[rest |-> Lessons(bookmarks, 0, 1), parent_id |-> 0]>>
          /\ UNCHANGED presult
       \/ /\ ppc' = "returned"
          /\ presult' = "PDFError"
          /\ UNCHANGED stack
    /\ UNCHANGED <<bookmarks, page_shift, docPages, entries, pdfFile>>
    /\ UNCHANGED <<dlVars, runVars>>

\* A loop that passes over a node whose page is missing, and its lessons.
VisitSkipMissing ==
    /\ ppc = "build"
    /\ stack # << >>
    /\ stack[1].rest # << >>
    /\ LET n == stack[1].rest[1]
           page_num == PageNum(bookmarks, page_shift, n)
           caller == [stack[1] EXCEPT !.rest = Tail(@)]
       IN  IF HasPage(docPages, page_num)
           THEN /\ entries' = Append(entries, [node |-> n, page |-> page_num,
                                               parent |-> stack[1].parent_id])
                /\ stack' = <<[rest |-> Lessons(bookmarks, n, 1),
                               parent_id |-> Len(entries) + 1], caller>>
                            \o Tail(stack)
           ELSE /\ stack' = <<caller>> \o Tail(stack)
                /\ UNCHANGED entries
    /\ UNCHANGED <<bookmarks, page_shift, docPages, ppc, presult, pdfFile>>
    /\ UNCHANGED <<dlVars, runVars>>

\* A failure that is dropped: the build goes on to the save.
VisitErrorDropped ==
    /\ ppc = "build"
    /\ stack # << >>
    /\ stack[1].rest # << >>
    /\ LET n == stack[1].rest[1]
           page_num == PageNum(bookmarks, page_shift, n)
           caller == [stack[1] EXCEPT !.rest = Tail(@)]
       IN  IF HasPage(docPages, page_num)
           THEN /\ entries' = Append(entries, [node |-> n, page |-> page_num,
                                               parent |-> stack[1].parent_id])
                /\ stack' = <<[rest |-> Lessons(bookmarks, n, 1),
                               parent_id |-> Len(entries) + 1], caller>>
                            \o Tail(stack)
                /\ UNCHANGED <<ppc, presult>>
           ELSE /\ stack' = << >>
                /\ ppc' = "finish"
                /\ presult' = "PositionOffsetError"
                /\ UNCHANGED entries
    /\ UNCHANGED <<bookmarks, page_shift, docPages, pdfFile>>
    /\ UNCHANGED <<dlVars, runVars>>

\* A loop that finishes the siblings before it descends into the lessons.
VisitSiblingsFirst ==
    /\ ppc = "build"
    /\ stack # << >>
    /\ stack[1].rest # << >>
    /\ LET n == stack[1].rest[1]
           page_num == PageNum(bookmarks, page_shift, n)
           caller == [stack[1] EXCEPT !.rest = Tail(@)]
       IN  IF HasPage(docPages, page_num)
           THEN /\ entries' = Append(entries, [node |-> n, page |-> page_num,
                                               parent |-> stack[1].parent_id])
                /\ stack' = <<caller, [rest |-> Lessons(bookmarks, n, 1),
                                       parent_id |-> Len(entries) + 1]>>
                            \o Tail(stack)
                /\ UNCHANGED <<ppc, presult>>
           ELSE /\ stack' = << >>
                /\ ppc' = "returned"
                /\ presult' = "PositionOffsetError"
                /\ UNCHANGED entries
    /\ UNCHANGED <<bookmarks, page_shift, docPages, pdfFile>>
    /\ UNCHANGED <<dlVars, runVars>>

\* Lines 268-291: one iteration of the loop of the innermost add_bookmarks:
\* the page lookup, doc.add_bookmark and the call for the lessons; a missing
\* page returns PositionOffsetError through every caller's `?`.
Visit ==
    /\ ppc = "build"
    /\ stack # << >>
    /\ stack[1].rest # << >>
    /\ LET n == stack[1].rest[1]
           page_num == PageNum(bookmarks, page_shift, n)
           caller == [stack[1] EXCEPT !.rest = Tail(@)]
       IN  IF HasPage(docPages, page_num)
           THEN /\ entries' = Append(entries, [node |-> n, page |-> page_num,
                                               parent |-> stack[1].parent_id])
                /\ stack' = <<[rest |-> Lessons(bookmarks, n, 1),
                               parent_id |-> Len(entries) + 1], caller>>
                            \o Tail(stack)
                /\ UNCHANGED <<ppc, presult>>
           ELSE /\ stack' = << >>
                /\ ppc' = "returned"
                /\ presult' = "PositionOffsetError"
                /\ UNCHANGED entries
    /\ UNCHANGED <<bookmarks, page_shift, docPages, pdfFile>>
    /\ UNCHANGED <<dlVars, runVars>>

\* Line 293: Ok(()) of the innermost add_bookmarks.
LessonsDone ==
    /\ ppc = "build"
    /\ stack # << >>
    /\ stack[1].rest = << >>
    /\ stack' = Tail(stack)
    /\ ppc' = IF Len(stack) = 1 THEN "finish" ELSE "build"
    /\ UNCHANGED <<bookmarks, page_shift, docPages, entries, presult, pdfFile>>
    /\ UNCHANGED <<dlVars, runVars>>

\* Lines 301-306: build_outline, the Outlines reference, doc.save(&pdf_path)?.
Save ==
    /\ ppc = "finish"
    /\ \/ /\ pdfFile' = [state |-> "saved", outline |-> entries]
          /\ presult' = "ok"
       \/ /\ pdfFile' = [state |-> "damaged", outline |-> << >>]
          /\ presult' = "IOError"
    /\ ppc' = "returned"
    /\ UNCHANGED <<bookmarks, page_shift, docPages, stack, entries>>
    /\ UNCHANGED <<dlVars, runVars>>

OutlineNext ==
    \/ Assemble
    \/ Load
    \/ Visit
    \/ LessonsDone
    \/ Save

OutlineSpec == OutlineInit /\ [][OutlineNext]_vars

\* ============================================================ a run of main
\* The ways 1..n splits into consecutive non-empty packages.
RECURSIVE Splits(_, _)
Splits(from, to) ==
    IF from > to THEN {<< >>}
    ELSE UNION {{<<[b \in 1..(cut - from + 1) |-> from + b - 1]>> \o rest :
                    rest \in Splits(cut + 1, to)} : cut \in from..to}

SetStatus(books, value) ==
    [b \in DOMAIN status |-> IF b \in books THEN value ELSE status[b]]

Range(seq) == {seq[k] : k \in DOMAIN seq}

RECURSIVE Selected(_)
Selected(seq) ==
    IF seq = << >> THEN << >>
    ELSE (IF status[Head(seq)] = "selected" THEN <<Head(seq)>> ELSE << >>)
            \o Selected(Tail(seq))

\* Lines 347-352 and 404-405: the books of the run, in exploration mode
\* (cli.books empty: the candidates in one list) or as book URLs.
RunInit ==
    /\ DownloadIdle
    /\ PrepIdle
    /\ \E n \in 1..MaxBooks :
          /\ status = [b \in 1..n |-> "new"]
          /\ \/ /\ rmode = "explore"
                /\ packages = <<[b \in 1..n |-> b]>>
                /\ rpc = "explore"
             \/ /\ rmode = "urls"
                /\ packages \in Splits(1, n)
                /\ rpc = "url"
    /\ pk = 1
    /\ tk = 1

\* Lines 405-420 and 224-230: the next URL and the request for its package.
UrlStart ==
    /\ rpc = "url"
    /\ pk <= Len(packages)
    /\ \/ \* the package arrives
          /\ rpc' = "fill"
          /\ tk' = 1
          /\ UNCHANGED <<pk, status>>
       \/ \* the URL does not parse or has no segments, or the request fails:
          \* printed, next URL (lines 425-447)
          /\ status' = SetStatus(Range(packages[pk]), "package_failed")
          /\ pk' = pk + 1
          /\ UNCHANGED <<rpc, tk>>
       \/ \* the last segment is no number: `return` (line 417)
          /\ status' = SetStatus(Range(packages[pk]), "package_failed")
          /\ rpc' = "stopped"
          /\ UNCHANGED <<pk, tk>>
    /\ UNCHANGED <<rmode, packages>>
    /\ UNCHANGED <<dlVars, prepVars>>

\* Line 405: no URL is left.
UrlsDone ==
    /\ rpc = "url"
    /\ pk > Len(packages)
    /\ rpc' = "done"
    /\ UNCHANGED <<rmode, packages, pk, tk, status>>
    /\ UNCHANGED <<dlVars, prepVars>>

\* Lines 231-233: fill_teaching_tool_metadata(..).await? on one tool.
PkgFill ==
    /\ rpc = "fill"
    /\ tk <= Len(packages[pk])
    /\ \/ /\ status' = SetStatus({packages[pk][tk]}, "filled")
          /\ tk' = tk + 1
          /\ UNCHANGED <<rpc, pk>>
       \/ \* Err: download_package returns it, main prints it (lines 425-430)
          /\ status' = SetStatus({packages[pk][tk]}, "metadata_failed")
          /\ rpc' = "url"
          /\ pk' = pk + 1
          /\ UNCHANGED tk
       \/ \* one of the unwrap() of lines 157-173
          /\ status' = SetStatus({packages[pk][tk]}, "metadata_panicked")
          /\ rpc' = "crashed"
          /\ UNCHANGED <<pk, tk>>
    /\ UNCHANGED <<rmode, packages>>
    /\ UNCHANGED <<dlVars, prepVars>>

\* Line 234: every tool has its metadata.
PkgFillDone ==
    /\ rpc = "fill"
    /\ tk > Len(packages[pk])
    /\ rpc' = "download"
    /\ tk' = 1
    /\ UNCHANGED <<rmode, packages, pk, status>>
    /\ UNCHANGED <<dlVars, prepVars>>

\* Lines 234-236: download_teaching_tool(..).await? on one tool; it returns
\* Ok or panics.
PkgDownload ==
    /\ rmode = "urls"
    /\ rpc = "download"
    /\ tk <= Len(packages[pk])
    /\ \/ /\ status' = SetStatus({packages[pk][tk]}, "downloaded")
          /\ tk' = tk + 1
          /\ UNCHANGED rpc
       \/ /\ status' = SetStatus({packages[pk][tk]}, "download_panicked")
          /\ rpc' = "crashed"
          /\ UNCHANGED tk
    /\ UNCHANGED <<rmode, packages, pk>>
    /\ UNCHANGED <<dlVars, prepVars>>

\* Lines 237 and 420-423: Ok(package), then prepare_package.
PkgDownloadDone ==
    /\ rmode = "urls"
    /\ rpc = "download"
    /\ tk > Len(packages[pk])
    /\ rpc' = "prepare"
    /\ tk' = 1
    /\ UNCHANGED <<rmode, packages, pk, status>>
    /\ UNCHANGED <<dlVars, prepVars>>

\* Lines 310-312 and 423: prepare_teaching_tool(teaching_tool)? on one tool,
\* under prepare_package(package).unwrap().
PkgPrepare ==
    /\ rmode = "urls"
    /\ rpc = "prepare"
    /\ tk <= Len(packages[pk])
    /\ \/ /\ status' = SetStatus({packages[pk][tk]}, "prepared")
          /\ tk' = tk + 1
          /\ UNCHANGED <<rpc, pk>>
       \/ \* Err (PositionOffsetError, PDFError, IOError): unwrap() panics
          /\ status' = SetStatus({packages[pk][tk]}, "prepare_failed")
          /\ rpc' = "crashed"
          /\ UNCHANGED <<pk, tk>>
       \/ \* the assert! on the assembler's exit status
          /\ status' = SetStatus({packages[pk][tk]}, "prepare_panicked")
          /\ rpc' = "crashed"
          /\ UNCHANGED <<pk, tk>>
    /\ UNCHANGED <<rmode, packages>>
    /\ UNCHANGED <<dlVars, prepVars>>

\* Line 313: Ok(()) of prepare_package; the next URL.
PkgPrepareDone ==
    /\ rmode = "urls"
    /\ rpc = "prepare"
    /\ tk > Len(packages[pk])
    /\ rpc' = "url"
    /\ pk' = pk + 1
    /\ UNCHANGED <<rmode, packages, tk, status>>
    /\ UNCHANGED <<dlVars, prepVars>>

\* Lines 353-391: one candidate of the exploration loop.
Explore ==
    /\ rpc = "explore"
    /\ tk <= Len(packages[1])
    /\ \/ \E answer \in {"selected", "declined"} :
             /\ status' = SetStatus({packages[1][tk]}, answer)
             /\ UNCHANGED rpc
       \/ /\ status' = SetStatus({packages[1][tk]}, "metadata_failed")
          /\ UNCHANGED rpc
       \/ /\ status' = SetStatus({packages[1][tk]}, "metadata_panicked")
          /\ rpc' = "crashed"
    /\ tk' = tk + 1
    /\ UNCHANGED <<rmode, packages, pk>>
    /\ UNCHANGED <<dlVars, prepVars>>

\* Lines 384-386 and 392: "cancel"; teaching_tools_to_download is complete.
ExploreDone ==
    /\ rpc = "explore"
    /\ tk > Len(packages[1])
    /\ packages' = <<Selected(packages[1])>>
    /\ rpc' = "download"
    /\ tk' = 1
    /\ UNCHANGED <<rmode, pk, status>>
    /\ UNCHANGED <<dlVars, prepVars>>

\* Line 393: download_teaching_tool of a selected tool; Ok or a panic.
ToolDownload ==
    /\ rmode = "explore"
    /\ rpc = "download"
    /\ tk <= Len(packages[1])
    /\ \/ /\ status' = SetStatus({packages[1][tk]}, "downloaded")
          /\ rpc' = "prepare"
       \/ /\ status' = SetStatus({packages[1][tk]}, "download_panicked")
          /\ rpc' = "crashed"
    /\ UNCHANGED <<rmode, packages, pk, tk>>
    /\ UNCHANGED <<dlVars, prepVars>>

\* Lines 395-399: prepare_teaching_tool of that tool; Ok and Err are printed.
ToolPrepare ==
    /\ rmode = "explore"
    /\ rpc = "prepare"
    /\ \/ /\ status' = SetStatus({packages[1][tk]}, "prepared")
          /\ rpc' = "download"
          /\ tk' = tk + 1
       \/ /\ status' = SetStatus({packages[1][tk]}, "prepare_failed")
          /\ rpc' = "download"
          /\ tk' = tk + 1
       \/ \* the assert! on the assembler's exit status
          /\ status' = SetStatus({packages[1][tk]}, "prepare_panicked")
          /\ rpc' = "crashed"
          /\ UNCHANGED tk
    /\ UNCHANGED <<rmode, packages, pk>>
    /\ UNCHANGED <<dlVars, prepVars>>

\* Line 403: the selected tools are done.
ToolsDone ==
    /\ rmode = "explore"
    /\ rpc = "download"
    /\ tk > Len(packages[1])
    /\ rpc' = "done"
    /\ UNCHANGED <<rmode, packages, pk, tk, status>>
    /\ UNCHANGED <<dlVars, prepVars>>

RunNext ==
    \/ UrlStart
    \/ UrlsDone
    \/ PkgFill
    \/ PkgFillDone
    \/ PkgDownload
    \/ PkgDownloadDone
    \/ PkgPrepare
    \/ PkgPrepareDone
    \/ Explore
    \/ ExploreDone
    \/ ToolDownload
    \/ ToolPrepare
    \/ ToolsDone

RunSpec == RunInit /\ [][RunNext]_vars

\* ----------------------------------------------------------------- claims
InFlight == Cardinality({k \in DOMAIN tasks : Running(tasks[k])})

\* C1: at every moment the number of spawned save_page_to_file tasks that
\* have not completed is at most the batch size: every such task is behind
\* one of the handles not yet cleared, and there are at most BatchSize of them.
C1_InFlightAtMostB ==
    /\ InFlight <= BatchSize
    /\ Len(handles) <= BatchSize
    /\ \A k \in DOMAIN tasks :
          Running(tasks[k]) => \E n \in DOMAIN handles : handles[n] = k

C1_BatchFull == InFlight = BatchSize

\* C2: when download_teaching_tool returns from the download path, the
\* directory holds exactly the files 0.png .. (N-1).png, each with the whole
\* payload of its locator.
C2_OneFilePerLocator ==
    result = "downloaded" =>
        /\ DOMAIN fs = {PagePath(book_dir, n) : n \in 0..(Len(page_urls) - 1)}
        /\ \A n \in 0..(Len(page_urls) - 1) :
              FileAt(fs, PagePath(book_dir, n)) = FullFile(page_urls[n + 1])

\* C3: a fetch of a later group is launched only when every fetch of every
\* earlier group has completed.
C3_LockStep ==
    \A a, b \in DOMAIN tasks :
        tasks[a].group < tasks[b].group => ~Running(tasks[a])

\* Two fetches of the third group, the later one finished first.
C3_OutOfOrderInGroup ==
    \E a, b \in DOMAIN tasks :
        /\ a < b
        /\ tasks[a].group = 2
        /\ tasks[b].group = 2
        /\ Running(tasks[a])
        /\ tasks[b].st = "done"

\* C4: when download_teaching_tool has returned from the download path,
\* a fetch task exists for every locator and every one of them has completed.
C4_ReturnAfterAllFetches ==
    result = "downloaded" =>
        /\ Len(tasks) = Len(page_urls)
        /\ \A k \in DOMAIN tasks : JoinOk(tasks[k])

C4_ReturnedLongBook == result = "downloaded" /\ Len(page_urls) > BatchSize + 1

\* C5: an invocation that finds the directory returns Ok at once, launching
\* no fetch and leaving the directory and its files as they were.
C5_SkipIsNoOp ==
    [][(pc = "start" /\ dirExists /\ pc' # pc) =>
          /\ pc' = "returned"
          /\ result' = "skipped"
          /\ tasks' = tasks
          /\ handles' = handles
          /\ fs' = fs
          /\ dirExists' = dirExists]_vars

C5_SecondCallSkipped ==
    /\ calls = 2
    /\ result = "skipped"
    /\ \E p \in DOMAIN fs : fs[p].bytes = "all"

\* C6: a failed send or a failed body leaves the fetch in its retry loop,
\* and the coordinator does not panic over it.
C6_TransferFailureRetried ==
    /\ \A k \in DOMAIN tasks :
          tasks[k].last \in {"send_err", "body_err"} => tasks[k].st = "opened"
    /\ pc = "panicked" => tasks[handles[h]].last # "body_err"

\* C7: a step changes a file's bytes only as the write of an attempt whose
\* response arrived, that attempt is the task's last, and the whole payload
\* is written at most once; a finished task does nothing more.
C7_WriteOnlyOnSuccess ==
    [][\A k \in DOMAIN tasks :
          LET t == tasks[k]
              u == tasks'[k]
          IN  /\ (t.st = "opened" /\ FileAt(fs', t.path) # FileAt(fs, t.path)) =>
                    /\ u.last \in {"ok", "write_err"}
                    /\ u.st # "opened"
              /\ u.writes <= 1
              /\ (u.writes = 1) =>
                    /\ u.st = "done"
                    /\ u.last = "ok"
                    /\ FileAt(fs', t.path) = FullFile(t.page_url)
              /\ (u # t /\ u.last \in {"send_err", "body_err"}) => fs' = fs
              /\ (t.st # "opened") => (u = t /\ FileAt(fs', t.path) = FileAt(fs, t.path))]_vars

C7_WrittenAndFailedFetch ==
    \E a, b \in DOMAIN tasks :
        /\ tasks[a].st = "done"
        /\ FileAt(fs, tasks[a].path) = FullFile(tasks[a].page_url)
        /\ tasks[b].last = "body_err"
        /\ FileAt(fs, tasks[b].path) = EmptyFile

\* C8: no two fetch tasks have the same page index or the same target path.
C8_DistinctTargets ==
    \A a, b \in DOMAIN tasks :
        a # b => /\ tasks[a].page_number # tasks[b].page_number
                 /\ tasks[a].path # tasks[b].path

\* Two fetches in flight together, one of a one-digit and one of a two-digit page.
C8_TwoRunningFetches ==
    \E a, b \in DOMAIN tasks :
        /\ Running(tasks[a])
        /\ Running(tasks[b])
        /\ Len(tasks[a].path) < Len(tasks[b].path)

\* C9: while a fetch has not succeeded, the coordinator has not returned and
\* no fetch of a later group has been launched.
C9_UnfinishedFetchBlocks ==
    \A a \in DOMAIN tasks :
        tasks[a].st # "done" =>
            /\ result # "downloaded"
            /\ \A b \in DOMAIN tasks : tasks[b].group <= tasks[a].group

\* C10: the group of a locator is its position divided by the batch size.
C10_GroupEveryB ==
    \A k \in DOMAIN tasks :
        tasks[k].group = tasks[k].page_number \div BatchSize

\* ------------------------------------------------- claims on the outline
\* The mathematical directPage - PageShift of a node (its own page, or its
\* first lesson's when it has none).
ShiftedPage(n) == StartPageOf(bookmarks, n) - page_shift

EntryNodes == [k \in DOMAIN entries |-> entries[k].node]
HasEntry(n) == \E k \in DOMAIN entries : entries[k].node = n

\* The nodes in pre-order: a node, then its lessons' subtrees, then the rest.
RECURSIVE PreOrder(_, _)
PreOrder(nodes, list) ==
    IF list = << >> THEN << >>
    ELSE <<Head(list)>> \o PreOrder(nodes, Lessons(nodes, Head(list), 1))
                        \o PreOrder(nodes, Tail(list))

Order == PreOrder(bookmarks, Lessons(bookmarks, 0, 1))

\* add_bookmarks returned Ok to prepare_teaching_tool.
BuildSucceeded == ppc = "finish" \/ presult \in {"ok", "IOError"}

\* C11: the page of every outline entry is the directPage of its node (of the
\* node's first lesson when the node has none) minus PageShift.
C11_ResolvedPage ==
    \A k \in DOMAIN entries : entries[k].page = ShiftedPage(entries[k].node)

\* C12: a node with startPage 0 and no lessons never gets an outline entry.
C12_NoPageNoEntry ==
    \A k \in DOMAIN entries :
        ~ /\ bookmarks[entries[k].node].startPage = 0
          /\ Lessons(bookmarks, entries[k].node, 1) = << >>

\* C13 as stated: with PageShift 3 and a document of fewer than 8 pages, a
\* node with directPage 10 gets no entry.
C13_FewerThanEight ==
    (page_shift = 3 /\ docPages < 8) =>
        \A k \in DOMAIN entries : bookmarks[entries[k].node].startPage # 10

\* C13 as amended: with PageShift 3 a node with directPage 10 resolves to
\* page 7; in a document of fewer than 7 pages it gets no entry and the build
\* that reaches it fails with PositionOffsetError, and with 7 pages or more
\* its entry is on page 7.
C13_FewerThanSeven ==
    page_shift = 3 =>
        /\ \A n \in DOMAIN bookmarks :
              bookmarks[n].startPage = 10 =>
                 /\ PageNum(bookmarks, page_shift, n) = 7
                 /\ docPages < 7 => ~HasEntry(n)
        /\ \A k \in DOMAIN entries :
              bookmarks[entries[k].node].startPage = 10 => entries[k].page = 7
        /\ (/\ bookmarks # << >>
            /\ bookmarks[1].startPage = 10
            /\ ppc \in {"finish", "returned"}
            /\ presult # "PDFError") =>
                 IF docPages < 7
                 THEN presult = "PositionOffsetError" /\ entries = << >>
                 ELSE entries # << >> /\ entries[1] = [node |-> 1, page |-> 7, parent |-> 0]

C13_FailedOnSixPages ==
    /\ page_shift = 3
    /\ docPages = 6
    /\ bookmarks # << >>
    /\ bookmarks[1].startPage = 10
    /\ presult = "PositionOffsetError"
    /\ entries = << >>

\* A node all of whose ancestors, and itself, resolve to a page of the document.
RECURSIVE Resolvable(_)
Resolvable(n) ==
    /\ HasPage(docPages, PageNum(bookmarks, page_shift, n))
    /\ bookmarks[n].parent = 0 \/ Resolvable(bookmarks[n].parent)

\* C14 as stated: when the build has ended, every node outside the subtrees
\* of the nodes whose page is missing has its entry.
C14_SiblingsStillResolved ==
    (ppc = "returned" /\ presult \in {"ok", "IOError", "PositionOffsetError"}) =>
        \A n \in DOMAIN bookmarks : Resolvable(n) => HasEntry(n)

\* Position of the first node, in pre-order, whose page is missing (one past
\* the end when there is none).
FirstMissing ==
    LET missing == {j \in DOMAIN Order :
                       ~HasPage(docPages, PageNum(bookmarks, page_shift, Order[j]))}
    IN  IF missing = {} THEN Len(Order) + 1
        ELSE CHOOSE j \in missing : \A m \in missing : j <= m

\* C14 as amended: the first node whose page is missing ends the whole build
\* with PositionOffsetError: its lessons, its later siblings and every other
\* node after it get no entry; the nodes before it in pre-order have theirs.
C14_FailureEndsBuild ==
    /\ Len(entries) < FirstMissing
    /\ EntryNodes = SubSeq(Order, 1, Len(entries))
    /\ presult = "PositionOffsetError" =>
          /\ FirstMissing <= Len(Order)
          /\ Len(entries) = FirstMissing - 1
          /\ ppc = "returned"
          /\ stack = << >>
    /\ BuildSucceeded => FirstMissing = Len(Order) + 1

C14_SiblingLeftOut ==
    /\ presult = "PositionOffsetError"
    /\ \E n, m \in DOMAIN bookmarks :
          /\ n < m
          /\ bookmarks[n].parent = bookmarks[m].parent
          /\ ~HasPage(docPages, PageNum(bookmarks, page_shift, n))
          /\ Resolvable(m)
          /\ ~HasEntry(m)

\* The entry made for a node, 0 for the level of book.bookmarks.
EntryOf(n) == IF n = 0 THEN 0 ELSE CHOOSE k \in DOMAIN entries : entries[k].node = n

\* C15: when add_bookmarks has succeeded there is one entry per node, the
\* entries were made in pre-order, and the parent of each is the entry of
\* its node's parent.
C15_PreOrderEntries ==
    BuildSucceeded =>
        /\ Len(entries) = Len(bookmarks)
        /\ EntryNodes = Order
        /\ \A n \in DOMAIN bookmarks :
              Cardinality({k \in DOMAIN entries : entries[k].node = n}) = 1
        /\ \A k \in DOMAIN entries :
              entries[k].parent = EntryOf(bookmarks[entries[k].node].parent)

\* A built outline whose pre-order differs from the order of the node indexes.
C15_BuiltBranchingTree ==
    /\ presult = "ok"
    /\ Len(entries) = 3
    /\ bookmarks[2].parent = 0
    /\ bookmarks[3].parent = 1
    /\ pdfFile.outline = entries

\* C16: every entry that has been made, in memory or saved, is on a page
\* that the document has.
C16_NoDanglingEntry ==
    /\ \A k \in DOMAIN entries : entries[k].page \in 1..docPages
    /\ \A k \in DOMAIN pdfFile.outline : pdfFile.outline[k].page \in 1..docPages

C16_FailedAfterEntries ==
    /\ presult = "PositionOffsetError"
    /\ Len(entries) = 2
    /\ \A k \in DOMAIN entries : entries[k].page \in 1..docPages

\* C18: once the assembler has exited unsuccessfully, prepare_teaching_tool
\* has panicked: nothing is loaded, no entry is added, nothing is saved.
C18_NoOutlineAfterFailedAssembly ==
    (ppc # "assemble" /\ pdfFile.state \in {"absent", "leftover"}) =>
        /\ ppc = "panicked"
        /\ stack = << >>
        /\ entries = << >>
        /\ presult = "none"

C18_AssemblyFailed ==
    /\ ppc = "panicked"
    /\ pdfFile.state = "leftover"
    /\ bookmarks # << >>

\* C19: the file is written again only by the save that follows a complete
\* add_bookmarks; after PositionOffsetError it is as the assembler left it.
C19_AllOrNothing ==
    [][/\ presult' = "PositionOffsetError" =>
             /\ pdfFile' = pdfFile
             /\ pdfFile'.outline = << >>
             /\ ppc' = "returned"
       /\ (ppc # "assemble" /\ pdfFile' # pdfFile) =>
             /\ Len(entries) = Len(bookmarks)
             /\ presult # "PositionOffsetError"]_vars

C19_FailedWithEntriesInMemory ==
    /\ presult = "PositionOffsetError"
    /\ entries # << >>
    /\ pdfFile = [state |-> "assembled", outline |-> << >>]
    /\ ppc = "returned"

\* C20: a node whose directPage - PageShift is not a page number of the
\* document gets no entry.
C20_NoWrongAnchor ==
    \A n \in DOMAIN bookmarks :
        ShiftedPage(n) \notin 1..docPages => ~HasEntry(n)

\* --------------------------------------------------- claims on a run of main
\* The book went through every stage, was declined, or failed itself.
Settled(b) ==
    status[b] \in {"prepared", "declined", "package_failed", "metadata_failed",
                   "metadata_panicked", "download_panicked", "prepare_failed",
                   "prepare_panicked"}

\* C17: when a run ends, by itself or by a panic, every book other than the
\* ones that failed has been through download and preparation.
C17_FailuresIsolated ==
    rpc \in {"done", "crashed"} => \A b \in DOMAIN status : Settled(b)

====
